---- MODULE Spec2Model ----
(***************************************************************************)
(* Model of the selection / scoring control logic of AIND-Recognizer:      *)
(*   src/my_model_selectors.py  SelectorConstant, SelectorBIC,             *)
(*                              SelectorDIC, SelectorCV                    *)
(*   src/my_recognizer.py       recognize                                  *)
(*                                                                         *)
(* GaussianHMM.fit / GaussianHMM.score are black boxes: every call either  *)
(* raises or yields a log-likelihood drawn from Scores.  Floating point    *)
(* values are modelled as extended rationals (a value is finite with a     *)
(* numerator and a positive denominator, or inf, -inf, nan), compared      *)
(* exactly by cross-multiplication.  math.log(N) is tabulated in tenths.   *)
(***************************************************************************)
EXTENDS Integers, Sequences, FiniteSets

\* ------------------------------------------------------------- bounds
\* largest hidden-state count tried (min/max_n_components range over 1..MaxN)
MaxN == 3
\* largest feature dimension d = len(X[0])
MaxD == 2
\* largest number of training rows N = len(X)
MaxRows == 3
\* largest number of categories in the corpus (hwords)
MaxWords == 3
\* largest number of training sequences of the target category
MaxSeq == 4
\* largest number of test items handed to recognize
MaxItems == 2
\* largest number of entries of the models mapping handed to recognize
MaxModels == 2

\* log-likelihoods a successful score call can return
Scores == {-2, 2}
\* category names of the models mapping handed to recognize
Cats == {"A", "B", "C"}

VARIABLES
  selector,           \* which entry point runs: Constant, BIC, DIC, CV, recognize
  min_n_components,   \* self.min_n_components
  max_n_components,   \* self.max_n_components
  n_constant,         \* self.n_constant
  X,                  \* shape of self.X: [rows, d]
  hwords,             \* number of categories in self.hwords (iterated 1..hwords)
  this_word,          \* self.this_word, a category in 1..hwords
  sequences,          \* len(self.sequences)
  pc,                 \* "split", "loop", "done" (returned) or "raised"
  n,                  \* loop variable of select: the next state count to try
  best_score,         \* min_score (BIC) / max_score (DIC, CV)
  best_model,         \* best_model
  result,             \* the value select returned (meaningful when pc = "done")
  oracle,             \* black-box outcomes consulted by the latest iteration
                      \* (CV: base_model's only, the folds' are summed in crit)
  crit,               \* history: per tried n, the criterion of that candidate
  models,             \* recognize: the models mapping's keys in iteration order
  test_set,           \* recognize: number of test items
  probabilities,      \* recognize: list of score tables
  guesses,            \* recognize: list of guesses
  scored              \* recognize history: each item's score-call outcomes

selVars == <<min_n_components, max_n_components, n_constant, X, hwords,
             this_word, sequences>>
recVars == <<models, test_set, probabilities, guesses, scored>>
vars == <<selector, selVars, pc, n, best_score, best_model, result, oracle,
          crit, recVars>>

\* ------------------------------------------------- extended rationals
Num(a, b) == [kind |-> "num", num |-> a, den |-> b]
PosInf == [kind |-> "inf", num |-> 0, den |-> 1]
NegInf == [kind |-> "-inf", num |-> 0, den |-> 1]
NaN == [kind |-> "nan", num |-> 0, den |-> 1]

\* a < b on floats: every comparison with nan is false
FloatLT(a, b) ==
  IF a.kind = "nan" \/ b.kind = "nan" THEN FALSE
  ELSE IF a.kind = "inf" \/ b.kind = "-inf" THEN FALSE
  ELSE IF a.kind = "-inf" \/ b.kind = "inf" THEN TRUE
  ELSE a.num * b.den < b.num * a.den

\* a > b on floats
FloatGT(a, b) == FloatLT(b, a)

\* ------------------------------------------------------------ models
\* a fitted GaussianHMM: its n_components and the sequences (indices into
\* self.sequences) its most recent successful fit was given
Model(k, S) == [some |-> TRUE, n |-> k, fitted |-> S]
None == [some |-> FALSE, n |-> 0, fitted |-> {}]

\* the indices of self.sequences; self.X is their concatenation
FullData == 0 .. (sequences - 1)

\* outcome of one score call
Fail == [ok |-> FALSE, v |-> 0]
Ok(s) == [ok |-> TRUE, v |-> s]
ScoreOutcomes == {Fail} \cup {Ok(s) : s \in Scores}

\* mutant: the fitted model reports one state more than was asked for
base_model_off_by_one(num_states, fitOk) ==
  IF fitOk THEN Model(num_states + 1, FullData) ELSE None

\* ModelSelector.base_model: GaussianHMM(num_states).fit(self.X, self.lengths),
\* None when the fit raises
base_model(num_states, fitOk) ==
  IF fitOk THEN Model(num_states, FullData) ELSE None

\* no black box consulted yet / not applicable
NoOracle == [fit |-> FALSE, self |-> Fail, others |-> <<>>, folds |-> <<>>]
\* history entries
NotTried == [state |-> "untried", val |-> NaN]
Dropped == [state |-> "dropped", val |-> NaN]
Scored(v) == [state |-> "scored", val |-> v]

Range == min_n_components .. max_n_components

\* --------------------------------------------------- SelectorConstant
\* SelectorConstant.select: return self.base_model(self.n_constant)
ConstantSelect ==
  /\ selector = "Constant" /\ pc = "loop"
  /\ \E fitOk \in BOOLEAN :
       /\ oracle' = [NoOracle EXCEPT !.fit = fitOk]
       /\ result' = base_model(n_constant, fitOk)
  /\ pc' = "done"
  /\ UNCHANGED <<selector, selVars, n, best_score, best_model, crit, recVars>>

\* -------------------------------------------------------- SelectorBIC
\* math.log(len(self.X)) in tenths (floor of 10 * ln N), N >= 1
Ln10(rows) == <<0, 6, 10, 13, 16, 17, 19, 20>>[rows]

\* mutant: the emission term counts the means only (n*d instead of 2*n*d)
BICParamsMeansOnly(k) == -1 + k * k + k * X.d

\* p = -1 + n ** 2 + n * len(self.X[0]) * 2
BICParams(k) == -1 + k * k + k * X.d * 2

\* BIC = -2 * logL + p * logN, in tenths
BICValue(k, logL) == Num(-2 * logL * 10 + BICParams(k) * Ln10(X.rows), 10)

\* the comparison of the BIC update: if BIC < min_score
BICBetter(bic, min_score) == FloatLT(bic, min_score)

\* one pass of the loop body of SelectorBIC.select for n = k: the new
\* (min_score, best_model); any exception leaves both as they were
BICBody(k, o) ==
  LET model == base_model(k, o.fit) IN
  IF ~model.some \/ ~o.self.ok
    THEN [score |-> best_score, model |-> best_model]
    ELSE LET BIC == BICValue(k, o.self.v) IN
         IF BICBetter(BIC, best_score)
           THEN [score |-> BIC, model |-> model]
           ELSE [score |-> best_score, model |-> best_model]

\* the BIC of the specification: p(n) = (n - 1) + n*(n - 1) + 2*n*d
BICOf(k, o) ==
  IF o.fit /\ o.self.ok
    THEN Scored(Num(-2 * o.self.v * 10
                    + ((k - 1) + k * (k - 1) + 2 * k * X.d) * Ln10(X.rows), 10))
    ELSE Dropped

BICOracles ==
  {[NoOracle EXCEPT !.fit = f, !.self = s] :
     f \in BOOLEAN, s \in ScoreOutcomes} \
  {[NoOracle EXCEPT !.fit = FALSE, !.self = Ok(s)] : s \in Scores}

BICIter ==
  /\ selector = "BIC" /\ pc = "loop" /\ n <= max_n_components
  /\ \E o \in BICOracles :
       /\ oracle' = o
       /\ best_score' = BICBody(n, o).score
       /\ best_model' = BICBody(n, o).model
       /\ crit' = [crit EXCEPT ![n] = BICOf(n, o)]
  /\ n' = n + 1
  /\ UNCHANGED <<selector, selVars, pc, result, recVars>>

\* -------------------------------------------------------- SelectorDIC
\* the categories other than self.this_word
Others == (1 .. hwords) \ {this_word}

\* for word in self.hwords: if word != self.this_word:
\*     sum_anti_logL += model.score(*self.hwords[word]); word_count += 1
\* from word w on; raised when a score call raises
RECURSIVE AntiLoop(_, _, _, _)
AntiLoop(o, w, sum_anti_logL, word_count) ==
  IF w > hwords
    THEN [raised |-> FALSE, sum |-> sum_anti_logL, count |-> word_count]
  ELSE IF w = this_word
    THEN AntiLoop(o, w + 1, sum_anti_logL, word_count)
  ELSE IF ~o.others[w].ok
    THEN [raised |-> TRUE, sum |-> sum_anti_logL, count |-> word_count]
  ELSE AntiLoop(o, w + 1, sum_anti_logL + o.others[w].v, word_count + 1)

\* the comparison of the DIC update: if DIC > max_score
DICBetter(dic, max_score) == FloatGT(dic, max_score)

\* mutant: a failing other-category score drops only its own term
RECURSIVE AntiLoopSkip(_, _, _, _)
AntiLoopSkip(o, w, sum_anti_logL, word_count) ==
  IF w > hwords
    THEN [raised |-> FALSE, sum |-> sum_anti_logL, count |-> word_count]
  ELSE IF w = this_word \/ ~o.others[w].ok
    THEN AntiLoopSkip(o, w + 1, sum_anti_logL, word_count)
  ELSE AntiLoopSkip(o, w + 1, sum_anti_logL + o.others[w].v, word_count + 1)
DICAntiSkipFailed(o) == AntiLoopSkip(o, 1, 0, 0)

\* the anti-likelihood loop as the loop body runs it
DICAnti(o) == AntiLoop(o, 1, 0, 0)

\* mutant: an empty comparison set is given the mean 0 instead of raising
DICBodyZeroMean(k, o) ==
  LET model == base_model(k, o.fit)
      keep == [score |-> best_score, model |-> best_model]
      anti == DICAnti(o)
  IN
  IF ~model.some \/ ~o.self.ok \/ anti.raised THEN keep
  ELSE LET DIC == IF anti.count = 0
                    THEN Num(o.self.v, 1)
                    ELSE Num(o.self.v * anti.count - anti.sum, anti.count) IN
       IF DICBetter(DIC, best_score)
         THEN [score |-> DIC, model |-> model]
         ELSE keep

\* one pass of the loop body of SelectorDIC.select for n = k
DICBody(k, o) ==
  LET model == base_model(k, o.fit)
      keep == [score |-> best_score, model |-> best_model]
      anti == DICAnti(o)
  IN
  IF ~model.some THEN keep                    \* if model: (skipped)
  ELSE IF ~o.self.ok THEN keep                \* model.score raises
  ELSE IF anti.raised THEN keep               \* a model.score in the loop raises
  ELSE IF anti.count = 0 THEN keep            \* ZeroDivisionError
  ELSE LET DIC == Num(o.self.v * anti.count - anti.sum, anti.count) IN
       IF DICBetter(DIC, best_score)
         THEN [score |-> DIC, model |-> model]
         ELSE keep

RECURSIVE SumOthers(_, _)
SumOthers(o, S) ==
  IF S = {} THEN 0
  ELSE LET w == CHOOSE x \in S : TRUE IN o.others[w].v + SumOthers(o, S \ {w})

\* every call the candidate needs succeeded
DICAllOk(o) == o.fit /\ o.self.ok /\ \A w \in Others : o.others[w].ok

\* the DIC of the specification: logL - mean of the other categories' scores
DICOf(o) ==
  IF DICAllOk(o) /\ Others # {}
    THEN Scored(Num(o.self.v * Cardinality(Others) - SumOthers(o, Others),
                    Cardinality(Others)))
    ELSE Dropped

\* outcomes of the calls of one candidate; a call that is not made (the fit
\* or an earlier score call failed, or the word is this_word) is recorded as
\* Fail
DICOracles ==
  {o \in [fit : {TRUE}, self : ScoreOutcomes,
          others : [1 .. hwords -> ScoreOutcomes], folds : {<<>>}] :
     /\ o.others[this_word] = Fail
     /\ ~o.self.ok => \A w \in Others : o.others[w] = Fail
     /\ \A v, w \in Others :
          v < w /\ o.others[v] = Fail => o.others[w] = Fail}
  \cup {[NoOracle EXCEPT !.others = [w \in 1 .. hwords |-> Fail]]}

DICIter ==
  /\ selector = "DIC" /\ pc = "loop" /\ n <= max_n_components
  /\ \E o \in DICOracles :
       /\ oracle' = o
       /\ best_score' = DICBody(n, o).score
       /\ best_model' = DICBody(n, o).model
       /\ crit' = [crit EXCEPT ![n] = DICOf(o)]
  /\ n' = n + 1
  /\ UNCHANGED <<selector, selVars, pc, result, recVars>>

\* --------------------------------------------------------- SelectorCV
\* n_splits handed to KFold: min(len(self.sequences), 3)
KFoldDefault == 3
NSplits == IF sequences < KFoldDefault THEN sequences ELSE KFoldDefault

\* indices of the f-th test fold (f in 1..k) of KFold(k).split over nseq
\* samples, no shuffling: the first nseq % k folds hold nseq \div k + 1
\* consecutive samples, the others nseq \div k
KFoldTest(nseq, k, f) ==
  LET size == nseq \div k
      extra == nseq % k
      start == (f - 1) * size + (IF f - 1 < extra THEN f - 1 ELSE extra)
      len == size + (IF f <= extra THEN 1 ELSE 0)
  IN start .. (start + len - 1)

\* cv_train_idx of the f-th fold: the samples outside the test fold
KFoldTrain(nseq, k, f) == (0 .. (nseq - 1)) \ KFoldTest(nseq, k, f)

\* the fold loop from fold f on, over the model object created for this n:
\* model.fit(train) then model.score(test); a fold that raises is skipped.
\* logLs is kept as its sum and its length.
\* mutant: each fold fits a copy, the object kept stays as base_model left it
RefitCopy(model, f) == model

\* model.fit(train_X, train_lengths): refits the same object in place
Refit(model, f) == Model(model.n, KFoldTrain(sequences, NSplits, f))

RECURSIVE FoldLoop(_, _, _, _, _)
FoldLoop(model, o, f, sum, count) ==
  IF f > NSplits THEN [model |-> model, sum |-> sum, count |-> count]
  ELSE IF ~model.some                   \* None.fit raises AttributeError
    THEN FoldLoop(model, o, f + 1, sum, count)
  ELSE IF ~o.folds[f].fit               \* model.fit raises
    THEN FoldLoop(model, o, f + 1, sum, count)
  ELSE LET refit == Refit(model, f) IN
       IF ~o.folds[f].score.ok          \* model.score raises
         THEN FoldLoop(refit, o, f + 1, sum, count)
         ELSE FoldLoop(refit, o, f + 1, sum + o.folds[f].score.v, count + 1)

\* mutant: the mean of no folds is 0
MeanEmptyZero(sum, count) == IF count = 0 THEN Num(0, 1) ELSE Num(sum, count)

\* mutant: the sum is divided by the number of folds, failed ones included
MeanOverAllFolds(sum, count) == IF count = 0 THEN NaN ELSE Num(sum, NSplits)

\* np.mean(logLs): nan for the empty list
Mean(sum, count) == IF count = 0 THEN NaN ELSE Num(sum, count)

\* the comparison of the CV update: if mean_score > max_score
CVBetter(mean_score, max_score) == FloatGT(mean_score, max_score)

\* the folds as the loop body runs them, starting from base_model(n)
CVFolds(k, o) == FoldLoop(base_model(k, o.fit), o, 1, 0, 0)

\* one pass of the loop body of SelectorCV.select for n = k
CVBody(k, o) ==
  LET run == CVFolds(k, o)
      mean_score == Mean(run.sum, run.count)
  IN IF CVBetter(mean_score, best_score)
       THEN [score |-> mean_score, model |-> run.model]
       ELSE [score |-> best_score, model |-> best_model]

\* the folds of a candidate whose fit and score both succeeded
FoldsOk(o) == {f \in 1 .. NSplits : o.fit /\ o.folds[f].fit /\ o.folds[f].score.ok}

RECURSIVE SumFolds(_, _)
SumFolds(o, S) ==
  IF S = {} THEN 0
  ELSE LET f == CHOOSE x \in S : TRUE IN o.folds[f].score.v + SumFolds(o, S \ {f})

\* the CV criterion of the specification: the arithmetic mean of the
\* successful folds' log-likelihoods
CVOf(o) ==
  IF FoldsOk(o) = {} THEN Dropped
  ELSE Scored(Num(SumFolds(o, FoldsOk(o)), Cardinality(FoldsOk(o))))

FoldOutcomes ==
  {[fit |-> TRUE, score |-> s] : s \in ScoreOutcomes}
  \cup {[fit |-> FALSE, score |-> Fail]}

\* outcomes of the calls of one candidate; after a failed base_model no call
\* on the model can succeed
CVOracles ==
  {[NoOracle EXCEPT !.fit = TRUE, !.folds = fo] :
     fo \in [1 .. NSplits -> FoldOutcomes]}
  \cup {[NoOracle EXCEPT !.folds =
           [f \in 1 .. NSplits |-> [fit |-> FALSE, score |-> Fail]]]}

\* split_method = KFold(min(len(self.sequences), 3)): the constructor raises
\* ValueError for n_splits <= 1, outside every try block of select
CVSplit ==
  /\ selector = "CV" /\ pc = "split"
  /\ pc' = IF NSplits <= 1 THEN "raised" ELSE "loop"
  /\ UNCHANGED <<selector, selVars, n, best_score, best_model, result, oracle,
                 crit, recVars>>

CVIter ==
  /\ selector = "CV" /\ pc = "loop" /\ n <= max_n_components
  /\ \E o \in CVOracles :
       /\ oracle' = [NoOracle EXCEPT !.fit = o.fit]
       /\ best_score' = CVBody(n, o).score
       /\ best_model' = CVBody(n, o).model
       /\ crit' = [crit EXCEPT ![n] = CVOf(o)]
  /\ n' = n + 1
  /\ UNCHANGED <<selector, selVars, pc, result, recVars>>

\* return best_model, at the end of the loop of BIC, DIC and CV
Return ==
  /\ selector \in {"BIC", "DIC", "CV"} /\ pc = "loop" /\ n > max_n_components
  /\ result' = best_model
  /\ pc' = "done"
  /\ UNCHANGED <<selector, selVars, n, best_score, best_model, oracle, crit,
                 recVars>>

\* ---------------------------------------------------------- recognize
\* for item, model in models.items(): the inner loop from entry j on, over
\* one test item whose score calls turn out as sc (category -> outcome)
\* a dict: keys not yet inserted are marked absent
Absent == [kind |-> "absent", num |-> 0, den |-> 1]
EmptyDict == [c \in Cats |-> Absent]
Keys(dict) == {c \in Cats : dict[c] # Absent}

\* mutant: a failed score call leaves no entry in the table
RecordFailureNoEntry(dict_probabilities, item) == dict_probabilities

\* except: dict_probabilities[item] = float("-inf")
RecordFailure(dict_probabilities, item) ==
  [dict_probabilities EXCEPT ![item] = NegInf]

RECURSIVE ScoreLoop(_, _, _, _, _)
ScoreLoop(sc, j, dict_probabilities, best_sc, best_guess) ==
  IF j > Len(models)
    THEN [dict |-> dict_probabilities, guess |-> best_guess]
  ELSE LET item == models[j] IN
       IF ~sc[item].ok
         THEN ScoreLoop(sc, j + 1, RecordFailure(dict_probabilities, item),
                        best_sc, best_guess)
       ELSE LET score == Num(sc[item].v, 1) IN
            IF FloatGT(score, best_sc)
              THEN ScoreLoop(sc, j + 1,
                             [dict_probabilities EXCEPT ![item] = score],
                             score, item)
              ELSE ScoreLoop(sc, j + 1,
                             [dict_probabilities EXCEPT ![item] = score],
                             best_sc, best_guess)

\* keys of the models mapping
ModelKeys == {models[j] : j \in 1 .. Len(models)}

\* one pass of the outer loop: score the next test item against every model
RecognizeItem ==
  /\ selector = "recognize" /\ pc = "loop"
  /\ Len(probabilities) < test_set
  /\ \E sc \in [ModelKeys -> ScoreOutcomes] :
       LET r == ScoreLoop(sc, 1, EmptyDict, NegInf, "None") IN
       /\ scored' = Append(scored, sc)
       /\ probabilities' = Append(probabilities, r.dict)
       /\ guesses' = Append(guesses, r.guess)
  /\ UNCHANGED <<selector, selVars, pc, n, best_score, best_model, result,
                 oracle, crit, models, test_set>>

\* return probabilities, guesses
RecognizeReturn ==
  /\ selector = "recognize" /\ pc = "loop"
  /\ Len(probabilities) = test_set
  /\ pc' = "done"
  /\ UNCHANGED <<selector, selVars, n, best_score, best_model, result, oracle,
                 crit, recVars>>

\* ---------------------------------------------------- specification
\* sequences without repetition over Cats, up to MaxModels entries
ModelOrders ==
  {s \in UNION {[1 .. k -> Cats] : k \in 0 .. MaxModels} :
     \A i, j \in 1 .. Len(s) : i # j => s[i] # s[j]}

\* defaults of the parts an entry point does not read
InitCommon ==
  /\ n = min_n_components
  /\ best_model = None
  /\ result = None
  /\ oracle = NoOracle
  /\ crit = [k \in 1 .. MaxN |-> NotTried]
  /\ probabilities = <<>>
  /\ guesses = <<>>
  /\ scored = <<>>

InitSelector ==
  /\ selector \in {"Constant", "BIC", "DIC", "CV"}
  /\ min_n_components \in 1 .. MaxN
  /\ max_n_components \in 1 .. MaxN
  /\ n_constant \in IF selector = "Constant" THEN 1 .. (MaxN + 1) ELSE {MaxN}
  /\ X \in IF selector = "BIC"
             THEN [rows : 1 .. MaxRows, d : 1 .. MaxD]
             ELSE {[rows |-> 1, d |-> 1]}
  /\ hwords \in IF selector = "DIC" THEN 1 .. MaxWords ELSE {1}
  /\ this_word \in 1 .. hwords
  /\ sequences \in IF selector = "CV" THEN 0 .. MaxSeq ELSE {1}
  /\ pc = IF selector = "CV" THEN "split" ELSE "loop"
  /\ best_score = IF selector = "BIC" THEN PosInf ELSE NegInf
  /\ models = <<>>
  /\ test_set = 0

InitRecognize ==
  /\ selector = "recognize"
  /\ min_n_components = 1 /\ max_n_components = 1 /\ n_constant = 1
  /\ X = [rows |-> 1, d |-> 1]
  /\ hwords = 1 /\ this_word = 1 /\ sequences = 1
  /\ pc = "loop"
  /\ best_score = NegInf
  /\ models \in ModelOrders
  /\ test_set \in 0 .. MaxItems

Init == (InitSelector \/ InitRecognize) /\ InitCommon

Next ==
  \/ ConstantSelect
  \/ BICIter
  \/ DICIter
  \/ CVSplit
  \/ CVIter
  \/ Return
  \/ RecognizeItem
  \/ RecognizeReturn

Spec == Init /\ [][Next]_vars

\* ------------------------------------------------------------- claims
\* a = b on floats (nan equals nothing)
FloatEQ(a, b) ==
  a.kind # "nan" /\ b.kind # "nan" /\ ~FloatLT(a, b) /\ ~FloatLT(b, a)

\* the candidates of the range that got a criterion value
ScoredNs == {k \in Range : crit[k].state = "scored"}

\* select has returned
Returned(sel) == selector = sel /\ pc = "done"

\* C1: for every strategy and every outcome of the fit/score calls, select
\* returns none or a model whose state count lies in
\* [min_n_components, max_n_components]; for SelectorConstant the returned
\* model's state count is n_constant.  The best model held during the search
\* obeys the same bound.
C1_ReturnedStateCountInRange ==
  /\ pc = "done" /\ selector = "Constant" /\ result.some
       => result.n = n_constant
  /\ pc = "done" /\ selector \in {"BIC", "DIC", "CV"} /\ result.some
       => result.n \in Range
  /\ selector \in {"BIC", "DIC", "CV"} /\ best_model.some
       => best_model.n \in Range /\ best_model.n < n

\* C1 witness: SelectorConstant returned a model for an n_constant outside
\* the search range
C1_Witness ==
  /\ Returned("Constant") /\ result.some
  /\ n_constant \notin Range /\ Range # {}

\* C2: SelectorBIC.select returns a global minimizer of
\* BIC(n) = -2 logL(n) + p(n) log N, p(n) = (n-1) + n(n-1) + 2nd, among the n
\* of the range whose fit and self-score succeeded; failed candidates are
\* skipped (every n of the range is tried) and with no success it returns none.
C2_BICGlobalMinimizer ==
  Returned("BIC") =>
    /\ \A k \in Range : crit[k].state # "untried"
    /\ ScoredNs = {} => ~result.some
    /\ ScoredNs # {} =>
         /\ result.some /\ result.n \in ScoredNs
         /\ FloatEQ(best_score, crit[result.n].val)
         /\ \A k \in ScoredNs : ~FloatLT(crit[k].val, crit[result.n].val)

\* C2 witness: a later, larger candidate beat an earlier successful one and a
\* candidate in between failed
C2_Witness ==
  /\ Returned("BIC") /\ result.some
  /\ \E j, k \in Range :
       /\ j < k /\ k < result.n
       /\ crit[j].state = "scored" /\ crit[k].state = "dropped"

\* C3: SelectorDIC.select returns a maximizer of DIC(n) = logL(n) - mean of
\* the other categories' scores over exactly the n whose fit, self-score and
\* every other-category score succeeded; a candidate with any failed call is
\* dropped as a whole and the search goes on with the next n.
C3_DICMaximizer ==
  /\ selector = "DIC" /\ n > min_n_components /\ ~DICAllOk(oracle)
       => ~(best_model.some /\ best_model.n = n - 1)
  /\ Returned("DIC") =>
       /\ \A k \in Range : crit[k].state # "untried"
       /\ ScoredNs = {} => ~result.some
       /\ ScoredNs # {} =>
            /\ result.some /\ result.n \in ScoredNs
            /\ FloatEQ(best_score, crit[result.n].val)
            /\ \A k \in ScoredNs : ~FloatGT(crit[k].val, crit[result.n].val)

\* C3 witness: the last candidate lost only one other-category score (fit,
\* self-score and another category's score succeeded) and an earlier
\* candidate was returned
C3_Witness ==
  /\ Returned("DIC") /\ result.some /\ result.n < max_n_components
  /\ oracle.fit /\ oracle.self.ok
  /\ \E v, w \in Others : v < w /\ oracle.others[v].ok /\ ~oracle.others[w].ok

\* C4: recognize returns a likelihood list and a guess list with one element
\* per test item, in enumeration order; every likelihood entry has exactly
\* the keys of the models mapping, each valued with that model's score of the
\* item, or -inf when that score call failed; a failure aborts nothing.
C4_RecognizeShape ==
  selector = "recognize" =>
    /\ pc \in {"loop", "done"}
    /\ Len(probabilities) = Len(scored) /\ Len(guesses) = Len(scored)
    /\ pc = "done" => Len(probabilities) = test_set
    /\ \A i \in 1 .. Len(scored) :
         /\ Keys(probabilities[i]) = ModelKeys
         /\ \A c \in ModelKeys :
              probabilities[i][c] =
                IF scored[i][c].ok THEN Num(scored[i][c].v, 1) ELSE NegInf

\* C4 witness: two items were returned, the first with a failed and a
\* successful score call
C4_Witness ==
  /\ Returned("recognize") /\ Len(probabilities) = 2
  /\ \E c, e \in ModelKeys : ~scored[1][c].ok /\ scored[1][e].ok

\* the first entry, in the mapping's iteration order, holding the maximum of
\* a score table
FirstMax(dict) ==
  models[CHOOSE j \in 1 .. Len(models) :
           /\ \A i \in 1 .. Len(models) :
                ~FloatGT(dict[models[i]], dict[models[j]])
           /\ \A i \in 1 .. (j - 1) :
                FloatGT(dict[models[j]], dict[models[i]])]

\* C5: for every test item the guess is the category with the maximum value
\* recorded in the item's score table, the first such category in the
\* mapping's iteration order.
C5_GuessIsFirstMax ==
  selector = "recognize" /\ models # <<>> =>
    \A i \in 1 .. Len(guesses) : guesses[i] = FirstMax(probabilities[i])

\* C6: SelectorCV.select for a category with fewer than 2 training sequences
\* does not raise.
C6_CVFewSequencesNoRaise ==
  selector = "CV" /\ sequences < 2 => pc # "raised"

\* C7: in SelectorDIC.select with no category other than the target, no
\* exception leaves select, no candidate is chosen and select returns none.
C7_DICNoOtherCategory ==
  selector = "DIC" /\ Others = {} =>
    /\ pc # "raised"
    /\ ~best_model.some
    /\ pc = "done" => ~result.some

\* C7 witness: select returned after a candidate whose fit and self-score
\* succeeded met the empty comparison set
C7_Witness ==
  /\ Returned("DIC") /\ Others = {}
  /\ oracle.fit /\ oracle.self.ok

\* C8: in SelectorCV.select a candidate with no successful fold (the initial
\* fit returning none included) is never the best model; if that is so for
\* every n of the range, select returns none.
C8_CVZeroFoldsExcluded ==
  selector = "CV" =>
    /\ best_model.some => crit[best_model.n].state = "scored"
    /\ n > min_n_components /\ ~oracle.fit
         => /\ crit[n - 1].state = "dropped"
            /\ ~(best_model.some /\ best_model.n = n - 1)
    /\ pc = "done" =>
         /\ result.some => crit[result.n].state = "scored"
         /\ ScoredNs = {} => ~result.some

\* C8 witness: select returned none after the last candidate, whose initial
\* fit succeeded, lost every fold
C8_Witness ==
  /\ Returned("CV") /\ Range # {} /\ ~result.some
  /\ oracle.fit /\ crit[max_n_components].state = "dropped"

\* the folds KFold hands out: k = min(3, len(sequences)) non-empty, pairwise
\* disjoint test parts covering the sequences, each trained on its complement
FoldsPartition ==
  /\ NSplits <= KFoldDefault /\ NSplits <= sequences
  /\ NSplits = KFoldDefault \/ NSplits = sequences
  /\ UNION {KFoldTest(sequences, NSplits, f) : f \in 1 .. NSplits} = FullData
  /\ \A f \in 1 .. NSplits :
       /\ KFoldTest(sequences, NSplits, f) # {}
       /\ KFoldTrain(sequences, NSplits, f)
            = FullData \ KFoldTest(sequences, NSplits, f)
       /\ \A g \in 1 .. NSplits :
            f # g => KFoldTest(sequences, NSplits, f)
                       \cap KFoldTest(sequences, NSplits, g) = {}

\* C9: SelectorCV.select splits the sequences into k = min(3, count) folds,
\* scores each fold's held-out part with the model fit on its training part,
\* skips failed folds, takes the arithmetic mean of the successful folds'
\* log-likelihoods as the criterion of n and returns a candidate maximizing it.
C9_CVMeanMaximizer ==
  /\ selector = "CV" /\ pc = "loop" => FoldsPartition
  /\ Returned("CV") =>
       /\ \A k \in Range : crit[k].state # "untried"
       /\ ScoredNs # {} =>
            /\ result.some /\ result.n \in ScoredNs
            /\ FloatEQ(best_score, crit[result.n].val)
            /\ \A k \in ScoredNs : ~FloatGT(crit[k].val, crit[result.n].val)

\* C9 witness: the returned candidate had a failed fold and beat an earlier
\* candidate whose folds all succeeded
C9_Witness ==
  /\ Returned("CV") /\ result.some /\ result.n = max_n_components
  /\ crit[result.n].val.den < NSplits
  /\ \E k \in ScoredNs : k < result.n /\ crit[k].val.den = NSplits

\* C10: SelectorCV.select refits the one model object of each n on every
\* fold's training subset, so a returned model's most recent successful fit
\* was on the training part of a fold, a strict subset of the sequences, not
\* on the full data.
C10_CVReturnedModelFitOnFold ==
  Returned("CV") /\ result.some =>
    /\ result.fitted # FullData
    /\ result.fitted \subseteq FullData
    /\ \E f \in 1 .. NSplits : result.fitted = KFoldTrain(sequences, NSplits, f)

\* C10 witness: the returned model was last fit on the training part of the
\* first of three folds (the later folds' fits failed)
C10_Witness ==
  /\ Returned("CV") /\ result.some /\ NSplits = KFoldDefault
  /\ result.fitted = KFoldTrain(sequences, NSplits, 1)

====
